---- MODULE Spec2Model ----
(***************************************************************************)
(* Model of src/main.py: the batch downloader of safe-route.ru travel      *)
(* sheets.  One event loop runs main(); per account it lists the travel    *)
(* sheets, resolves each to a special-project identifier through a fan-out *)
(* of concurrent requests, deduplicates, and downloads through a second    *)
(* fan-out.  Every await on the network is a suspension point, so every    *)
(* action below is the code that runs between two suspension points.       *)
(***************************************************************************)
EXTENDS Integers, Sequences, FiniteSets, TLC

(* ------------------------------ bounds --------------------------------- *)

\* number of credentials in KGWS_LKP_LIST
NumAccounts == 2
\* longest short listing the server holds (besides the full page)
MaxRecords == 3
\* depth of nested get_all_travel_sheets_uuids calls the interpreter allows
MaxRecursion == 3

(* ------------------------- program constants --------------------------- *)

\* default of the parameter `limit`
InitialLimit == 1000
\* size of one read of response.content
ChunkSize == 1024
\* the only status download_pdf and the filename lookup accept
StatusOK == 200

\* Python's None: the missing uuid, the 'no attachment' result, the
\* result of a download that did not write a file
None == "None"

(* ------------------------------ helpers -------------------------------- *)

Range(s) == {s[i] : i \in 1..Len(s)}

Min(a, b) == IF a < b THEN a ELSE b

Last(s) == s[Len(s)]

Front(s) == SubSeq(s, 1, Len(s) - 1)

\* number of positions of s that hold x
Count(s, x) == Cardinality({i \in 1..Len(s) : s[i] = x})

\* all sequences without repetition that enumerate the set S
Permutations_(S) ==
    {p \in [1..Cardinality(S) -> S] : \A i, j \in 1..Cardinality(S) : p[i] = p[j] => i = j}

(* ------------------------- strings as characters ----------------------- *)

\* "doc.pdf"
DocPdf == <<"d", "o", "c", ".", "p", "d", "f">>
\* "a b.pdf" and "a/b.pdf": two raw names with one sanitized form
ASpaceB == <<"a", " ", "b", ".", "p", "d", "f">>
ASlashB == <<"a", "/", "b", ".", "p", "d", "f">>
\* "a%20b.pdf": the percent-encoded form of "a b.pdf"
APctB == <<"a", "%", "2", "0", "b", ".", "p", "d", "f">>

\* "a b/c?.pdf", the specification's example, and "a_b_c_.pdf"
ASpaceBSlashC == <<"a", " ", "b", "/", "c", "?", ".", "p", "d", "f">>
AUnderBUnderC == <<"a", "_", "b", "_", "c", "_", ".", "p", "d", "f">>

RawNames == {DocPdf, ASpaceB, ASlashB, APctB, ASpaceBSlashC}

\* one character, the Cyrillic letter U+0434, which \w matches in a str
\* pattern
Cyrillic == "U+0434"

\* the ASCII letters and digits the model uses, and the underscore
AsciiWordChars == {"a", "b", "c", "d", "e", "f", "i", "l", "m", "n", "o", "p",
                   "0", "1", "2", "_"}

\* the characters Python's \w and \d match among those the model uses
WordChars == AsciiWordChars \cup {Cyrillic}

\* a string-valued None: the header that is absent (or empty, which the code
\* treats alike) and the filename that was not resolved; the pattern's group
\* has at least one character, so no resolved filename is empty
NoHeader == <<>>

NoFilename == <<>>

\* 'filename="'
FilenameEq == <<"f", "i", "l", "e", "n", "a", "m", "e", "=", "\"">>
\* 'filename'
FilenameToken == SubSeq(FilenameEq, 1, 8)

\* Content-Disposition: attachment; filename="<raw>"
HeaderFor(raw) == <<"a", ";", " ">> \o FilenameEq \o raw \o <<"\"">>

\* Content-Disposition: attachment; filename=<raw>
UnquotedHeaderFor(raw) == <<"a", ";", " ">> \o FilenameToken \o <<"=">> \o raw

\* Content-Disposition: inline
InlineHeader == <<"i", "n", "l", "i", "n", "e">>

\* `needle in hay` of Python strings
Contains(hay, needle) ==
    \E i \in 1..(Len(hay) - Len(needle) + 1) :
        SubSeq(hay, i, i + Len(needle) - 1) = needle

\* re.findall('filename="(.+)"', h)[0], or None when nothing matches: the
\* leftmost 'filename="' followed by at least one character and a quote;
\* the group is greedy, so it ends at the last quote of the value
FirstQuotedFilename(h) ==
    LET starts == {i \in 1..Len(h) :
                     /\ i + Len(FilenameEq) - 1 <= Len(h)
                     /\ SubSeq(h, i, i + Len(FilenameEq) - 1) = FilenameEq
                     /\ \E j \in (i + Len(FilenameEq) + 1)..Len(h) : h[j] = "\""}
    IN IF starts = {} THEN NoFilename
       ELSE LET i == CHOOSE x \in starts : \A y \in starts : x <= y
                j == CHOOSE x \in (i + Len(FilenameEq) + 1)..Len(h) :
                        /\ h[x] = "\""
                        /\ \A y \in (x + 1)..Len(h) : h[y] # "\""
            IN SubSeq(h, i + Len(FilenameEq), j - 1)

\* urllib.parse.unquote on the escapes the model uses (%20 and %2f)
RECURSIVE unquote(_)
unquote(s) ==
    IF s = <<>> THEN <<>>
    ELSE IF Len(s) >= 3 /\ SubSeq(s, 1, 3) = <<"%", "2", "0">>
         THEN <<" ">> \o unquote(SubSeq(s, 4, Len(s)))
    ELSE IF Len(s) >= 3 /\ SubSeq(s, 1, 3) = <<"%", "2", "f">>
         THEN <<"/">> \o unquote(SubSeq(s, 4, Len(s)))
    ELSE <<s[1]>> \o unquote(Tail(s))

\* ReplaceForbidden with \w and \d confined to ASCII
ReplaceForbidden_Ascii(s) ==
    [i \in 1..Len(s) |-> IF s[i] \in AsciiWordChars \cup {".", "-"} THEN s[i] ELSE "_"]

\* re.sub(r'[^\w\d.-]', '_', s)
ReplaceForbidden(s) ==
    [i \in 1..Len(s) |-> IF s[i] \in WordChars \cup {".", "-"} THEN s[i] ELSE "_"]

\* re.sub(r'^"|"$', '', s)
StripQuotes(s) ==
    LET a == IF s # <<>> /\ s[1] = "\"" THEN Tail(s) ELSE s
    IN IF a # <<>> /\ a[Len(a)] = "\"" THEN Front(a) ELSE a

\* get_filename_from_response_headers without the test of line 40
get_filename_AnyStatus(resp) ==
    IF resp.header = NoHeader THEN NoFilename
    ELSE IF ~Contains(resp.header, FilenameToken) THEN NoFilename
    ELSE IF FirstQuotedFilename(resp.header) = NoFilename THEN NoFilename
    ELSE StripQuotes(ReplaceForbidden(unquote(FirstQuotedFilename(resp.header))))

\* get_filename_from_response_headers on the answer of the storage
\* resource: the sanitized filename, or NoFilename (Python's None)
get_filename_from_response_headers(resp) ==
    IF resp.status # StatusOK THEN NoFilename
    ELSE IF resp.header = NoHeader THEN NoFilename
    ELSE IF ~Contains(resp.header, FilenameToken) THEN NoFilename
    ELSE IF FirstQuotedFilename(resp.header) = NoFilename THEN NoFilename
    ELSE StripQuotes(ReplaceForbidden(unquote(FirstQuotedFilename(resp.header))))

(* ------------------------------ the server ----------------------------- *)

\* the uuid of the i-th travel sheet of a short listing
UuidNames == <<"u1", "u2", "u3", "u4", "u5">>

\* special-project identifiers
ProjectIds == {"p1", "p2"}

\* what download_pdf may be called with
FileUuids == ProjectIds \cup {None}

\* store_uuid values
Stores == {"s1", "s2"}

\* decoded JSON bodies of /api/claim/special_projects
AttachmentBodies ==
    {<<>>} \cup {<<[special_project_uuid |-> p]>> : p \in ProjectIds}

\* further decoded bodies: a first record without the field, a first
\* element that is not an object (a JSON value v that is not an object is
\* written [scalar |-> v]), a first record whose field is null, and two
\* records that differ
OddAttachmentBodies ==
    { <<[claim_uuid |-> "u1"]>>,
      <<[scalar |-> "x"]>>,
      <<[special_project_uuid |-> None]>>,
      <<[special_project_uuid |-> "p1"], [special_project_uuid |-> "p2"]>>,
      <<[claim_uuid |-> "u1"], [special_project_uuid |-> "p1"]>> }

\* listings whose first travel sheet has such an attachment answer
OddListings ==
    {<< [uuid |-> "u1", body |-> b],
        [uuid |-> "u2", body |-> <<[special_project_uuid |-> "p2"]>>] >> :
       b \in OddAttachmentBodies}

\* a travel sheet: its record in the listing (uuid, or None when the record
\* has no uuid) and what the attachment endpoint answers for it
SheetsAt(i) ==
    {[uuid |-> None, body |-> <<>>]}
      \cup {[uuid |-> UuidNames[i], body |-> b] : b \in AttachmentBodies}

\* every listing of at most MaxRecords records
ShortListings ==
    UNION {{s \in [1..n -> UNION {SheetsAt(i) : i \in 1..n}] :
              \A i \in 1..n : s[i] \in SheetsAt(i)} : n \in 0..MaxRecords}

\* a listing that fills the first page: InitialLimit records
FullListing == [i \in 1..InitialLimit |-> [uuid |-> "u1", body |-> <<>>]]

\* the scenario of the specification's end-to-end example
ExampleListing ==
    << [uuid |-> "u1", body |-> <<[special_project_uuid |-> "p1"]>>],
       [uuid |-> "u2", body |-> <<>>],
       [uuid |-> "u3", body |-> <<[special_project_uuid |-> "p1"]>>] >>

\* few listings, kept when the download side varies
BaseListings ==
    { ExampleListing,
      << [uuid |-> "u1", body |-> <<[special_project_uuid |-> "p1"]>>],
         [uuid |-> "u2", body |-> <<[special_project_uuid |-> "p2"]>>] >> }

\* the body of a file and the body of a description (its JSON text), as bytes
FileBody == <<"%", "P", "D", "F">>

JsonBody == <<"{", "}">>

\* statuses other than 200 the server answers with
ErrorStatuses == {404}

\* answers of /api/claim/special_project/download
DescriptionAnswers ==
    {[status |-> st, store_uuid |-> None, body |-> JsonBody] : st \in ErrorStatuses}
      \cup {[status |-> StatusOK, store_uuid |-> s, body |-> JsonBody] : s \in Stores}

\* the value of json['store_uuid'] when the key is absent
Missing == "missing key"

\* a description answered with 200 whose JSON has no store_uuid
KeylessAnswers == {[status |-> StatusOK, store_uuid |-> Missing, body |-> JsonBody]}

\* how response.json() fares on a listing answer: it decodes; the content
\* type is not JSON (ContentTypeError); the content type is JSON and the
\* body is not (json.JSONDecodeError)
ListingAnswers == {"json", "not json", "malformed json"}

\* answers of /api/docstore/<store_uuid>
StoreAnswers ==
    {[status |-> StatusOK, header |-> NoHeader, body |-> FileBody]}
      \cup {[status |-> StatusOK, header |-> HeaderFor(n), body |-> FileBody] :
              n \in {DocPdf, ASpaceB, ASlashB}}

\* further answers of /api/docstore/<store_uuid>: a status other than 200,
\* a header without a filename, an unquoted filename, and quoted filenames
\* with a percent escape, with a letter outside ASCII and with a quote
OddStoreAnswers ==
    {[status |-> 404, header |-> HeaderFor(DocPdf), body |-> FileBody],
     [status |-> StatusOK, header |-> InlineHeader, body |-> FileBody],
     [status |-> StatusOK, header |-> UnquotedHeaderFor(DocPdf), body |-> FileBody]}
      \cup {[status |-> StatusOK, header |-> HeaderFor(n), body |-> FileBody] :
              n \in {APctB, ASpaceBSlashC,
                     <<Cyrillic, ".", "p", "d", "f">>,
                     <<"a", "\"", "b", ".", "p", "d", "f">>}}

\* content of a file left in downloads/ by an earlier run
OldBody == <<"o", "l", "d">>

\* "a_b.pdf"
AUnderB == <<"a", "_", "b", ".", "p", "d", "f">>

\* downloads/ before the run: empty, or holding files of an earlier run
InitialDirs == {[f \in D |-> OldBody] : D \in SUBSET {DocPdf}}

\* the download side kept when the listing varies: both identifiers are
\* described, p1 is stored as doc.pdf and p2 as "a b.pdf"
BaseDescriptions ==
    [x \in FileUuids |->
        IF x = "p1" THEN [status |-> StatusOK, store_uuid |-> "s1", body |-> JsonBody]
        ELSE IF x = "p2" THEN [status |-> StatusOK, store_uuid |-> "s2", body |-> JsonBody]
        ELSE [status |-> 404, store_uuid |-> None, body |-> JsonBody]]

BaseStores ==
    [x \in Stores |->
        IF x = "s1" THEN [status |-> StatusOK, header |-> HeaderFor(DocPdf), body |-> FileBody]
        ELSE [status |-> StatusOK, header |-> HeaderFor(ASpaceB), body |-> FileBody]]

(* ------------------------------- state --------------------------------- *)

VARIABLES
    sheets,        \* server: the travel sheets, in the order of the listing
    descriptions,  \* server: identifier -> answer of the description resource
    stores,        \* server: store_uuid -> answer of the storage resource
    fs,            \* downloads/: filename -> content, for the files that exist
    downloads0,    \* downloads/ as it was when the run started
    listing_answer,\* server: how the listing answers decode
    not_json,      \* server: the uuids whose attachment answer is not JSON
    diagnostics,   \* the requests info_request_log has dumped
    dir_before,    \* downloads/ as it was when the download stage started
    acct,          \* main: the value of `number` in the loop over credentials
    pc,            \* main: where start_parser is suspended
    sessions,      \* the accounts whose ClientSession is open
    error,         \* the exception that ended the run, None when none
    number,        \* get_all_travel_sheets_uuids: parameter `number`
    limit,         \* get_all_travel_sheets_uuids: parameter `limit`
    depth,         \* nested calls of get_all_travel_sheets_uuids
    requests,      \* limits of the listing requests of this account, in order
    uuids,         \* what get_all_travel_sheets_uuids returned
    tasks,         \* async_requester: the tasks of the fan-out in flight
    completed,     \* indices of the finished tasks, in order of completion
    responses,     \* what the last async_requester returned
    file_uuids,    \* what get_all_file_uuids returned
    report,        \* account -> <<successful, total>> printed by download_all_files
    runs           \* account -> identifiers and outcomes of its download stage

vars == <<sheets, descriptions, stores, fs, downloads0, listing_answer,
          not_json, diagnostics, dir_before, acct, pc, sessions, error, number,
          limit, depth, requests, uuids, tasks, completed, responses,
          file_uuids, report, runs>>

serverVars == <<sheets, descriptions, stores, downloads0, listing_answer, not_json>>

listingVars == <<number, limit, depth, requests>>

Accounts == 1..NumAccounts

\* line 163, entering `async with aiohttp.ClientSession(...)`
OpenSession(open, a) == open \cup {a}

\* CloseSession that leaves the session open
CloseSession_Leaked(open, a) == open

\* line 163, leaving the `async with` block, by return or by exception
CloseSession(open, a) == open \ {a}

\* a task created by asyncio.ensure_future(callback_func(session, arg)),
\* run up to its first suspension: the request of its callback is sent
NewTask(arg, at) ==
    [arg |-> arg, pc |-> at, result |-> None, outcome |-> "pending",
     store |-> None, filename |-> NoFilename, pos |-> 0, written |-> 0]

\* tasks = [ensure_future(callback_func(session, arg)) for arg in arg_list]
CreateTasks(arg_list, at) == [i \in 1..Len(arg_list) |-> NewTask(arg_list[i], at)]

\* the inputs: every listing against one download side, every download
\* side against few listings, and the answers that make a callback raise
Inputs ==
    \/ /\ sheets \in ShortListings \cup OddListings \cup {FullListing}
       /\ descriptions = BaseDescriptions
       /\ stores = BaseStores
       /\ fs = <<>>
       /\ listing_answer = "json"
       /\ not_json = {}
    \/ /\ sheets \in BaseListings
       /\ descriptions \in [FileUuids -> DescriptionAnswers]
       /\ stores \in [Stores -> StoreAnswers]
       /\ fs \in InitialDirs
       /\ listing_answer = "json"
       /\ not_json = {}
    \/ /\ sheets \in BaseListings
       /\ descriptions = BaseDescriptions
       /\ stores = BaseStores
       /\ fs = <<>>
       /\ \/ listing_answer = "json" /\ not_json \in (SUBSET {"u1", "u2", "u3"}) \ {{}}
          \/ listing_answer \in ListingAnswers \ {"json"} /\ not_json = {}
    \/ /\ sheets \in BaseListings
       /\ descriptions = BaseDescriptions
       /\ stores \in [Stores -> StoreAnswers \cup OddStoreAnswers]
       /\ stores["s1"] \in OddStoreAnswers
       /\ stores["s2"] = BaseStores["s2"]
       /\ fs \in InitialDirs
       /\ listing_answer = "json"
       /\ not_json = {}
    \/ /\ sheets \in BaseListings
       /\ descriptions \in [FileUuids -> DescriptionAnswers \cup KeylessAnswers]
       /\ \E x \in ProjectIds : descriptions[x] \in KeylessAnswers
       /\ stores = BaseStores
       /\ fs \in InitialDirs
       /\ listing_answer = "json"
       /\ not_json = {}

Init ==
    /\ Inputs
    /\ downloads0 = fs
    /\ diagnostics = {}
    /\ dir_before = fs
    /\ acct = 1
    /\ pc = "main"
    /\ sessions = {}
    /\ error = None
    /\ number = 0
    /\ limit = 0
    /\ depth = 0
    /\ requests = <<>>
    /\ uuids = <<>>
    /\ tasks = <<>>
    /\ completed = <<>>
    /\ responses = <<>>
    /\ file_uuids = <<>>
    /\ report = [a \in Accounts |-> <<>>]
    /\ runs = [a \in Accounts |-> <<>>]

(* ------------------------------- listing ------------------------------- *)

\* the server's answer to GET /api/claim/claims?limit=<lim>: json['data']
Page(lim) == SubSeq(sheets, 1, Min(Len(sheets), lim))

\* ExtractUuids without the test of line 156
ExtractUuids_KeepNone(travel_sheets) ==
    [i \in 1..Len(travel_sheets) |-> travel_sheets[i].uuid]

\* lines 153-157: the uuids of the records that have one, in page order
RECURSIVE ExtractUuids(_)
ExtractUuids(travel_sheets) ==
    IF travel_sheets = <<>> THEN <<>>
    ELSE IF Head(travel_sheets).uuid # None
         THEN <<Head(travel_sheets).uuid>> \o ExtractUuids(Tail(travel_sheets))
         ELSE ExtractUuids(Tail(travel_sheets))

\* the parameters of get_all_travel_sheets_uuids(session, number, limit=1000)
\* when it is called with the positional arguments args after the session
BindNumber(args) == args[1]

BindLimit(args) == IF Len(args) >= 2 THEN args[2] ELSE InitialLimit

\* main/start_parser: the next credential; the session is opened and
\* get_all_travel_sheets_uuids(session, number) sends its request
StartAccount ==
    /\ pc = "main"
    /\ acct <= NumAccounts
    /\ sessions' = OpenSession(sessions, acct)
    /\ number' = BindNumber(<<acct>>)
    /\ limit' = BindLimit(<<acct>>)
    /\ depth' = 1
    /\ requests' = <<limit'>>
    /\ pc' = "listing"
    /\ UNCHANGED <<serverVars, dir_before, diagnostics, fs, acct, error, uuids, tasks, completed,
                   responses, file_uuids, report, runs>>

\* the positional arguments, after the session, of the recursive call of
\* line 152 once `limit *= 2` has run
RestartArgs(lim) == <<lim * 2>>

\* the page holds `limit` records and the interpreter still allows a nested
\* call: line 152 calls get_all_travel_sheets_uuids(session, limit), whose
\* request is sent
ListingRestart ==
    /\ pc = "listing"
    /\ listing_answer = "json"
    /\ Len(Page(limit)) = limit
    /\ depth < MaxRecursion
    /\ number' = BindNumber(RestartArgs(limit))
    /\ limit' = BindLimit(RestartArgs(limit))
    /\ depth' = depth + 1
    /\ requests' = Append(requests, limit')
    /\ UNCHANGED <<serverVars, dir_before, diagnostics, fs, acct, pc, sessions, error, uuids, tasks,
                   completed, responses, file_uuids, report, runs>>

\* the page holds `limit` records at the deepest call the interpreter
\* allows: RecursionError leaves every frame, the session is closed by
\* its context manager and main ends
ListingOverflow ==
    /\ pc = "listing"
    /\ listing_answer = "json"
    /\ Len(Page(limit)) = limit
    /\ depth = MaxRecursion
    /\ pc' = "aborted"
    /\ error' = "RecursionError"
    /\ sessions' = CloseSession(sessions, acct)
    /\ UNCHANGED <<serverVars, dir_before, diagnostics, fs, acct, listingVars, uuids, tasks, completed,
                   responses, file_uuids, report, runs>>

\* the exception that leaves get_all_travel_sheets_uuids when
\* response.json() fails: ContentTypeError is caught at line 147 and line
\* 149 then reads `json`, which was never bound; any other error of the
\* decoder is not caught
ListingError(answer) ==
    IF answer = "not json" THEN "UnboundLocalError" ELSE "JSONDecodeError"

\* ListingDump with a handler for every error of the decoder
ListingDump_Always(answer, dumped) == dumped \cup {"listing"}

\* the requests info_request_log has dumped once the listing answer failed
\* to decode: line 148 runs only in the handler of ContentTypeError
ListingDump(answer, dumped) ==
    IF answer = "not json" THEN dumped \cup {"listing"} ELSE dumped

\* the listing answer does not decode: the exception leaves every frame,
\* the session is closed by its context manager and main ends
ListingUndecodable ==
    /\ pc = "listing"
    /\ listing_answer # "json"
    /\ diagnostics' = ListingDump(listing_answer, diagnostics)
    /\ pc' = "aborted"
    /\ error' = ListingError(listing_answer)
    /\ sessions' = CloseSession(sessions, acct)
    /\ UNCHANGED <<serverVars, dir_before, fs, acct, listingVars, uuids, tasks, completed,
                   responses, file_uuids, report, runs>>

\* the page is shorter than `limit`: the uuids are returned and
\* get_all_file_uuids starts its fan-out over them
ListingReturn ==
    /\ pc = "listing"
    /\ listing_answer = "json"
    /\ Len(Page(limit)) # limit
    /\ uuids' = ExtractUuids(Page(limit))
    /\ tasks' = CreateTasks(uuids', "attachment")
    /\ completed' = <<>>
    /\ pc' = "resolving"
    /\ UNCHANGED <<serverVars, dir_before, diagnostics, fs, acct, sessions, error, listingVars,
                   responses, file_uuids, report, runs>>

(* ------------------------------- fan-out ------------------------------- *)

\* AllDone that takes a task that raised for a finished one
AllDone_Settled == \A i \in 1..Len(tasks) : tasks[i].pc \in {"done", "raised"}

\* every task of the fan-out has returned
AllDone == \A i \in 1..Len(tasks) : tasks[i].pc = "done"

\* gather that collects the results as the tasks finish
gather_AsCompleted(ts, order) == [k \in 1..Len(order) |-> ts[order[k]].result]

\* asyncio.gather(*tasks): the results of the tasks, in the order of the tasks
gather(ts, order) == [i \in 1..Len(ts) |-> ts[i].result]

\* task i returns: its result is set and it joins the finished ones
Return(i, result, outcome, filename) ==
    /\ tasks' = [tasks EXCEPT ![i].pc = "done", ![i].result = result,
                              ![i].outcome = outcome, ![i].filename = filename]
    /\ completed' = Append(completed, i)

\* task i raises: its exception is set and it joins the finished ones
Raise(i, exception) ==
    /\ tasks' = [tasks EXCEPT ![i].pc = "raised", ![i].outcome = exception]
    /\ completed' = Append(completed, i)

\* the event loop runs tasks: a fan-out is awaited, or main has ended
\* with an exception and run_until_complete has not yet stopped the loop
LoopRunning == pc \in {"resolving", "downloading", "aborted"}

Raised == {i \in 1..Len(tasks) : tasks[i].pc = "raised"}

\* the first task that raised
FirstRaised ==
    completed[CHOOSE k \in 1..Len(completed) :
                 /\ completed[k] \in Raised
                 /\ \A j \in 1..(k - 1) : completed[j] \notin Raised]

\* a task raised: gather raises its exception in async_requester without
\* waiting for the other tasks and without cancelling them; the exception
\* leaves every frame, the session is closed by its context manager and
\* main ends
FanoutRaises ==
    /\ pc \in {"resolving", "downloading"}
    /\ Raised # {}
    /\ pc' = "aborted"
    /\ error' = tasks[FirstRaised].outcome
    /\ sessions' = CloseSession(sessions, acct)
    /\ UNCHANGED <<serverVars, dir_before, diagnostics, fs, acct, listingVars, uuids, tasks,
                   completed, responses, file_uuids, report, runs>>

\* run_until_complete stops the loop after main has ended with an
\* exception: the tasks still pending never run again
LoopStops ==
    /\ pc = "aborted"
    /\ pc' = "exited"
    /\ UNCHANGED <<serverVars, dir_before, diagnostics, fs, acct, sessions, error, listingVars,
                   uuids, tasks, completed, responses, file_uuids, report, runs>>

(* ------------------------------ resolution ----------------------------- *)

\* what /api/claim/special_projects?claim_uuid=<u> answers
AttachmentBody(u) == (CHOOSE sh \in Range(sheets) : sh.uuid = u).body

\* json[0].get raises: the first element is not an object
GetRaises(json) == "scalar" \in DOMAIN json[1]

\* get_special_project_file_uuid that reads the last record
get_special_project_file_uuid_Last(json) ==
    IF json = <<>> THEN None
    ELSE IF GetRaises(json) THEN None
    ELSE IF "special_project_uuid" \in DOMAIN json[Len(json)]
         THEN json[Len(json)].special_project_uuid
         ELSE None

\* lines 112-119 on the decoded body: an empty body falls off the function,
\* an exception of line 115 is caught at line 117, dict.get yields None for
\* a key that is absent
get_special_project_file_uuid(json) ==
    IF json = <<>> THEN None
    ELSE IF GetRaises(json) THEN None
    ELSE IF "special_project_uuid" \in DOMAIN json[1]
         THEN json[1].special_project_uuid
         ELSE None

\* the attachment endpoint answers task i: response.json() of line 112 is
\* not guarded
RecvAttachment(i) ==
    /\ LoopRunning
    /\ tasks[i].pc = "attachment"
    /\ IF tasks[i].arg \in not_json
       THEN Raise(i, "ContentTypeError")
       ELSE Return(i, get_special_project_file_uuid(AttachmentBody(tasks[i].arg)),
                   "returned", NoFilename)
    /\ UNCHANGED <<serverVars, dir_before, diagnostics, fs, acct, pc, sessions, error, listingVars,
                   uuids, responses, file_uuids, report, runs>>

\* ListOfSet without the set: list(responses)
ListOfSet_NoSet(rs) == {rs}

\* list(set(responses)): a set iterates in an order the program does not
\* control, so every enumeration of the distinct values is possible
ListOfSet(rs) == Permutations_(Range(rs))

\* lines 132-133 on a non-empty list
DropTrailingNone(l) == IF Last(l) = None THEN Front(l) ELSE l

\* every resolver returned: get_all_file_uuids deduplicates and
\* download_all_files starts its fan-out
GetAllFileUuids ==
    /\ pc = "resolving"
    /\ AllDone
    /\ responses' = gather(tasks, completed)
    /\ responses' # <<>>
    /\ \E l \in ListOfSet(responses') :
          file_uuids' = DropTrailingNone(l)
    /\ tasks' = CreateTasks(file_uuids', "description")
    /\ dir_before' = fs
    /\ completed' = <<>>
    /\ pc' = "downloading"
    /\ UNCHANGED <<serverVars, diagnostics, fs, acct, sessions, error, listingVars, uuids,
                   report, runs>>

\* no travel sheet had a uuid: list(set([])) is empty and line 132 indexes
\* it; IndexError leaves every frame and main ends
GetAllFileUuidsEmpty ==
    /\ pc = "resolving"
    /\ AllDone
    /\ responses' = gather(tasks, completed)
    /\ responses' = <<>>
    /\ pc' = "aborted"
    /\ error' = "IndexError"
    /\ sessions' = CloseSession(sessions, acct)
    /\ UNCHANGED <<serverVars, dir_before, diagnostics, fs, acct, listingVars, uuids, tasks, completed,
                   file_uuids, report, runs>>

(* ------------------------------- download ------------------------------ *)

\* response.content.read(n) on a body read up to pos
Read(body, pos, n) == SubSeq(body, pos + 1, Min(Len(body), pos + n))

\* the description resource answers task i: a status other than 200 is
\* logged and the task returns None; otherwise response.json() reads the
\* body to its end, store_uuid is taken (KeyError when the key is absent)
\* and the storage request is sent (RuntimeError when the session has been
\* closed)
RecvDescription(i) ==
    /\ LoopRunning
    /\ tasks[i].pc = "description"
    /\ LET resp == descriptions[tasks[i].arg] IN
          IF resp.status # StatusOK
          THEN /\ Return(i, None, "error", NoFilename)
               /\ diagnostics' = diagnostics \cup {tasks[i].arg}
          ELSE IF resp.store_uuid = Missing
          THEN Raise(i, "KeyError") /\ UNCHANGED diagnostics
          ELSE IF acct \notin sessions
          THEN Raise(i, "RuntimeError") /\ UNCHANGED diagnostics
          ELSE /\ tasks' = [tasks EXCEPT ![i].pc = "storage",
                                         ![i].store = resp.store_uuid,
                                         ![i].pos = Len(resp.body)]
               /\ UNCHANGED <<completed, diagnostics>>
    /\ UNCHANGED <<serverVars, dir_before, fs, acct, pc, sessions, error, listingVars,
                   uuids, responses, file_uuids, report, runs>>

\* Exists that never finds the file
Exists_Never(dir, filename) == FALSE

\* os.path.exists(save_path)
Exists(dir, filename) == filename \in DOMAIN dir

\* OpenWb that leaves no file under save_path
OpenWb_Elsewhere(dir, filename) == dir

\* open(save_path, 'wb'): the file exists and is empty
OpenWb(dir, filename) ==
    [f \in DOMAIN dir \cup {filename} |-> IF f = filename THEN <<>> ELSE dir[f]]

\* the storage resource answers task i: lines 61-68 run without suspension
RecvStorage(i) ==
    /\ LoopRunning
    /\ tasks[i].pc = "storage"
    /\ LET filename == get_filename_from_response_headers(stores[tasks[i].store]) IN
          IF filename = NoFilename
          THEN Return(i, None, "no filename", filename) /\ UNCHANGED fs
          ELSE IF Exists(fs, filename)
          THEN Return(i, None, "already exists", filename) /\ UNCHANGED fs
          ELSE /\ fs' = OpenWb(fs, filename)
               /\ tasks' = [tasks EXCEPT ![i].pc = "writing",
                                         ![i].filename = filename]
               /\ UNCHANGED completed
    /\ UNCHANGED <<serverVars, dir_before, diagnostics, acct, pc, sessions, error, listingVars, uuids,
                   responses, file_uuids, report, runs>>

\* the stream the loop of lines 69-73 reads: `response` is the response of
\* the description resource
StreamOf(t) == descriptions[t.arg].body

\* one turn of the loop of lines 69-73
ReadChunk(i) ==
    /\ LoopRunning
    /\ tasks[i].pc = "writing"
    /\ LET chunk == Read(StreamOf(tasks[i]), tasks[i].pos, ChunkSize) IN
          IF chunk = <<>>
          THEN Return(i, "True", "downloaded", tasks[i].filename) /\ UNCHANGED fs
          ELSE /\ fs' = [fs EXCEPT ![tasks[i].filename] = @ \o chunk]
               /\ tasks' = [tasks EXCEPT ![i].pos = @ + Len(chunk),
                                         ![i].written = @ + Len(chunk)]
               /\ UNCHANGED completed
    /\ UNCHANGED <<serverVars, dir_before, diagnostics, acct, pc, sessions, error, listingVars, uuids,
                   responses, file_uuids, report, runs>>

\* Successful that counts every result
Successful_All(rs) == 1..Len(rs)

\* line 101: the results that are truthy
Successful(rs) == {i \in 1..Len(rs) : rs[i] = "True"}

\* every download returned: download_all_files prints its counters,
\* start_parser closes the session and main goes on to the next credential
FinishAccount ==
    /\ pc = "downloading"
    /\ AllDone
    /\ report' = [report EXCEPT ![acct] =
                     <<Cardinality(Successful(gather(tasks, completed))),
                       Len(file_uuids)>>]
    /\ runs' = [runs EXCEPT ![acct] =
                   [i \in 1..Len(tasks) |->
                       [arg |-> tasks[i].arg, outcome |-> tasks[i].outcome,
                        filename |-> tasks[i].filename,
                        written |-> tasks[i].written]]]
    /\ sessions' = CloseSession(sessions, acct)
    /\ acct' = acct + 1
    /\ pc' = IF acct = NumAccounts THEN "done" ELSE "main"
    /\ number' = 0
    /\ limit' = 0
    /\ depth' = 0
    /\ requests' = <<>>
    /\ uuids' = <<>>
    /\ tasks' = <<>>
    /\ completed' = <<>>
    /\ responses' = <<>>
    /\ file_uuids' = <<>>
    /\ UNCHANGED <<serverVars, dir_before, diagnostics, fs, error>>

(* --------------------------- specification ----------------------------- *)

Next ==
    \/ StartAccount
    \/ ListingRestart
    \/ ListingOverflow
    \/ ListingReturn
    \/ ListingUndecodable
    \/ FanoutRaises
    \/ LoopStops
    \/ \E i \in 1..Len(tasks) : RecvAttachment(i)
    \/ GetAllFileUuids
    \/ GetAllFileUuidsEmpty
    \/ \E i \in 1..Len(tasks) : RecvDescription(i)
    \/ \E i \in 1..Len(tasks) : RecvStorage(i)
    \/ \E i \in 1..Len(tasks) : ReadChunk(i)
    \/ FinishAccount

Spec == Init /\ [][Next]_vars

(* ------------------------------- claims -------------------------------- *)

\* the uuid values of the records of page that have one, in page order
UuidsInOrder(page) ==
    LET having == SelectSeq(page, LAMBDA r : r.uuid # None)
    IN [i \in 1..Len(having) |-> having[i].uuid]

\* C1: whenever a listing answer holds exactly `limit` records, the next
\* listing request asks for twice the limit of the request just answered,
\* so the requests of one fetch ask for 1000, 2000, 4000, ...
C1_RestartDoublesLimit ==
    /\ requests # <<>> => requests[1] = InitialLimit
    /\ \A k \in 1..(Len(requests) - 1) : requests[k + 1] = 2 * requests[k]

\* the fetch of the current account is over, by a return or by an error
ListingEnded ==
    \/ pc \in {"resolving", "downloading"}
    \/ pc = "aborted" /\ error = "RecursionError"

\* C2: against a server that holds N records and answers min(N, limit) of
\* them, the fetch ends by returning the uuids of all N records, for every
\* N, also N >= 1000
C2_FetchReturnsAllRecords ==
    ListingEnded => (error # "RecursionError" /\ uuids = UuidsInOrder(sheets))

\* C3: when a listing answer, decoded, holds fewer than `limit` records, no
\* further listing request is sent and the fetch returns the uuid values of
\* the records that have one, in page order
C3_ShortPageReturnsItsUuids ==
    [][(pc = "listing" /\ listing_answer = "json" /\ Len(Page(limit)) < limit)
          => (/\ requests' = requests
              /\ pc' = "resolving"
              /\ uuids' = UuidsInOrder(Page(limit)))]_vars

\* a short page was returned, some of its records without a uuid
C3_Witness ==
    /\ pc = "resolving"
    /\ Len(uuids) >= 2
    /\ Len(uuids) < Len(sheets)

\* C4: the list handed to the download stage holds every distinct
\* special-project identifier of the resolver results exactly once
C4_EachIdentifierOnce ==
    pc = "downloading" =>
        \A p \in Range(responses) \ {None} : Count(file_uuids, p) = 1

\* the results held a duplicate and the sentinel
C4_Witness ==
    /\ pc = "downloading"
    /\ None \in Range(responses)
    /\ \E i, j \in 1..Len(responses) : i # j /\ responses[i] = responses[j]
                                       /\ responses[i] # None
    /\ file_uuids # <<>>

\* C5: the list returned by get_all_file_uuids never holds None, so
\* download_pdf is never called with it
C5_SentinelDropped ==
    pc = "downloading" =>
        /\ None \notin Range(file_uuids)
        /\ \A i \in 1..Len(tasks) : tasks[i].arg # None

\* the end-to-end example of the specification: the listing answers u1,
\* u2, u3; u1 and u3 resolve to p1 and u2 to nothing; p1 is described and
\* stored as doc.pdf; downloads/ starts empty
ExampleScenario ==
    /\ sheets = ExampleListing
    /\ descriptions["p1"].status = StatusOK
    /\ descriptions["p1"].store_uuid \in Stores
    /\ get_filename_from_response_headers(stores[descriptions["p1"].store_uuid]) = DocPdf
    /\ downloads0 = <<>>

\* C6: in the end-to-end example exactly one download is attempted,
\* exactly one file, downloads/doc.pdf, is written, and the first account
\* reports 1 successful download out of 1
C6_ExampleDownloadsOnce ==
    ExampleScenario =>
        /\ (pc = "downloading" /\ acct = 1) => Len(tasks) = 1
        /\ report[1] # <<>> => (report[1] = <<1, 1>> /\ DOMAIN fs = {DocPdf})

\* C7: when download_pdf returns True, the file it wrote holds the body of
\* the storage resource whose Content-Disposition header named it
C7_FileHoldsStorageBody ==
    \A i \in 1..Len(tasks) :
        (pc = "downloading" /\ tasks[i].result = "True")
            => fs[tasks[i].filename] = stores[tasks[i].store].body

\* s extends t
Extends(s, t) == Len(s) >= Len(t) /\ SubSeq(s, 1, Len(t)) = t

\* C8: a file that exists in downloads/ is never truncated or removed, and
\* grows only under the invocation that created it; an invocation whose
\* filename names an existing file returns None as 'already exists'
C8_ExistingFileUntouched ==
    [][/\ \A f \in DOMAIN fs :
             /\ f \in DOMAIN fs'
             /\ Extends(fs'[f], fs[f])
             /\ fs'[f] # fs[f] =>
                    \E i \in 1..Len(tasks) :
                        tasks[i].pc = "writing" /\ tasks[i].filename = f
       /\ \A i \in 1..Len(tasks) :
             (/\ tasks[i].pc = "storage"
              /\ tasks'[i].pc # "storage"
              /\ Exists(fs, get_filename_from_response_headers(stores[tasks[i].store])))
                 => (/\ tasks'[i].outcome = "already exists"
                     /\ tasks'[i].result = None
                     /\ fs' = fs)]_vars

\* an invocation met a file of an earlier run and left it as it was
C8_Witness ==
    \E i \in 1..Len(tasks) :
        /\ tasks[i].outcome = "already exists"
        /\ tasks[i].filename \in DOMAIN downloads0
        /\ fs[tasks[i].filename] = OldBody

\* the identifiers of the download stage of account a
RunIds(a) == {runs[a][i].arg : i \in 1..Len(runs[a])}

\* the download stage ran twice, the second time with the identifiers of
\* the first, against the same directory and the same server
RanTwice ==
    /\ report[1] # <<>>
    /\ report[2] # <<>>
    /\ RunIds(1) = RunIds(2)

\* C9 as stated: on the second run of the download stage no byte is
\* written, no item counts as a successful download and every item is
\* reported as 'already exists'
C9_SecondRunAllExist ==
    RanTwice =>
        /\ report[2][1] = 0
        /\ \A i \in 1..Len(runs[2]) :
              /\ runs[2][i].written = 0
              /\ runs[2][i].outcome = "already exists"

\* C9 as amended: on the second run no byte is written, no file is
\* created, no item counts as a successful download, and every item whose
\* filename is resolved is reported as 'already exists'; an item whose
\* description is not 200 or whose filename is not resolved fails as it
\* did on the first run
C9_SecondRunWritesNothing ==
    RanTwice =>
        /\ report[2][1] = 0
        /\ \A i \in 1..Len(runs[2]) :
              /\ runs[2][i].written = 0
              /\ runs[2][i].outcome # "downloaded"
              /\ runs[2][i].filename # NoFilename
                    => runs[2][i].outcome = "already exists"
              /\ runs[2][i].filename = NoFilename
                    => \E j \in 1..Len(runs[1]) :
                          /\ runs[1][j].arg = runs[2][i].arg
                          /\ runs[1][j].outcome = runs[2][i].outcome

\* the second run met a file the first run had downloaded
C9_Witness ==
    /\ RanTwice
    /\ \E i \in 1..Len(runs[2]), j \in 1..Len(runs[1]) :
          /\ runs[2][i].outcome = "already exists"
          /\ runs[1][j].arg = runs[2][i].arg
          /\ runs[1][j].outcome = "downloaded"

\* the result of the resolver on the i-th input, for every input
ResolverResults(arg_list) ==
    [i \in 1..Len(arg_list) |->
        get_special_project_file_uuid(AttachmentBody(arg_list[i]))]

\* C10: when every invocation has returned, async_requester returns as
\* many results as inputs, the i-th being the result of the callback on
\* the i-th input, whatever the order of completion
C10_ResultsInInputOrder ==
    /\ (pc = "resolving" /\ AllDone)
          => gather(tasks, completed) = ResolverResults(uuids)
    /\ pc = "downloading" => responses = ResolverResults(uuids)
    /\ (pc = "downloading" /\ AllDone)
          => /\ Len(gather(tasks, completed)) = Len(file_uuids)
             /\ \A i \in 1..Len(tasks) :
                   gather(tasks, completed)[i] = "True"
                      <=> (tasks[i].arg = file_uuids[i]
                             /\ tasks[i].outcome = "downloaded")

\* every resolver has returned, the last input first, with results that
\* differ between inputs
C10_Witness ==
    /\ pc = "resolving"
    /\ AllDone
    /\ Len(completed) >= 2
    /\ completed[1] = Len(tasks)
    /\ tasks[1].result # tasks[Len(tasks)].result

\* C11: once an invocation of a fan-out has raised, the fan-out returns no
\* results: it raises that exception, which ends the account's pipeline
\* and main, so no counters are reported for the stage and no later
\* account is started
C11_RaiseAbortsRun ==
    [][Raised # {} =>
          /\ responses' = responses
          /\ file_uuids' = file_uuids
          /\ report' = report
          /\ runs' = runs
          /\ acct' = acct
          /\ pc' \in {pc, "aborted", "exited"}
          /\ sessions' \subseteq sessions
          /\ (pc' = "aborted" /\ pc # "aborted") =>
                /\ error' \in {tasks[i].outcome : i \in Raised}
                /\ sessions' = {}]_vars

\* the run ended on a raised invocation of the first account while another
\* invocation of the fan-out had already returned its result
C11_Witness ==
    /\ pc = "exited"
    /\ acct = 1
    /\ Raised # {}
    /\ error = tasks[FirstRaised].outcome
    /\ \E j \in 1..Len(tasks) : tasks[j].pc = "done"
    /\ report[1] = <<>>

\* C12: accounts are processed one after the other in the order of the
\* credentials: a session is open only for the account being processed,
\* and only once every earlier account has reported its download stage
\* and closed its session; at most one session is open
C12_AccountsInSequence ==
    /\ Cardinality(sessions) <= 1
    /\ \A a \in sessions :
          /\ a = acct
          /\ \A b \in 1..(a - 1) : report[b] # <<>> /\ b \notin sessions
    /\ pc \in {"listing", "resolving", "downloading"} =>
          /\ sessions = {acct}
          /\ \A b \in 1..(acct - 1) : report[b] # <<>>
    /\ pc \in {"main", "done"} =>
          /\ sessions = {}
          /\ tasks = <<>>
          /\ \A b \in 1..(acct - 1) : report[b] # <<>>

\* the second account downloads after the first has reported and closed
C12_Witness ==
    /\ acct = 2
    /\ pc = "downloading"
    /\ tasks # <<>>
    /\ sessions = {2}
    /\ report[1] # <<>>

\* the expected failures of the download of identifier x: the description
\* resource answers a status other than 200, or the storage resource
\* yields no filename (a status other than 200, no Content-Disposition
\* header, or a header in which filename="..." does not occur)
NoFilenameFrom(answer) ==
    \/ answer.status # StatusOK
    \/ answer.header = NoHeader
    \/ FirstQuotedFilename(answer.header) = NoFilename

ExpectedFailure(x) ==
    \/ descriptions[x].status # StatusOK
    \/ /\ descriptions[x].store_uuid \in Stores
       /\ NoFilenameFrom(stores[descriptions[x].store_uuid])

\* the download of identifier x meets no exception and no expected failure
Downloadable(x) ==
    /\ descriptions[x].status = StatusOK
    /\ descriptions[x].store_uuid \in Stores
    /\ ~NoFilenameFrom(stores[descriptions[x].store_uuid])

\* C13: a download that meets an expected failure returns None without
\* raising and without writing a file; the fan-out completes, the other
\* identifiers are downloaded (or found to exist), and the reported
\* success count is the number of the items that were downloaded
C13_ExpectedFailureIsLocal ==
    /\ pc = "downloading" =>
          \A i \in 1..Len(tasks) :
              ExpectedFailure(tasks[i].arg) =>
                  /\ tasks[i].pc \notin {"raised", "writing"}
                  /\ tasks[i].result = None
                  /\ tasks[i].written = 0
                  /\ tasks[i].filename = NoFilename
                  /\ tasks[i].pc = "done" => tasks[i].outcome \in {"error", "no filename"}
    /\ (pc = "downloading" /\ \A i \in 1..Len(tasks) : descriptions[tasks[i].arg].store_uuid # Missing)
          => Raised = {}
    /\ \A a \in Accounts :
          report[a] # <<>> =>
              /\ report[a][2] = Len(runs[a])
              /\ report[a][1] =
                    Cardinality({i \in 1..Len(runs[a]) : ~ExpectedFailure(runs[a][i].arg)
                                    /\ runs[a][i].outcome = "downloaded"})
              /\ \A i \in 1..Len(runs[a]) :
                    /\ ExpectedFailure(runs[a][i].arg)
                          => runs[a][i].outcome \in {"error", "no filename"}
                    /\ Downloadable(runs[a][i].arg)
                          => runs[a][i].outcome \in {"downloaded", "already exists"}

\* a stage reported its counters with one item that failed on its
\* description, one that had no filename and one that was downloaded
C13_Witness ==
    \E a \in Accounts :
        /\ report[a] # <<>>
        /\ report[a][1] < report[a][2]
        /\ \E i, j \in 1..Len(runs[a]) :
              /\ runs[a][i].outcome \in {"error", "no filename"}
              /\ runs[a][j].outcome = "downloaded"

\* the invocations of the fan-out that have opened file f for writing
Writers(f) ==
    {i \in 1..Len(tasks) :
        tasks[i].filename = f /\ (tasks[i].pc = "writing" \/ tasks[i].outcome = "downloaded")}

\* the invocations of the fan-out whose filename resolved to f
Resolved(f) == {i \in 1..Len(tasks) : tasks[i].filename = f /\ f # NoFilename}

\* C14: within one download fan-out no two invocations have the same
\* destination file open for writing; when several identifiers resolve to
\* one filename, at most one invocation opens it (exactly one when the
\* file did not exist before the stage) and the others report 'already
\* exists'
C14_OneWriterPerFile ==
    \A i \in 1..Len(tasks) :
        LET f == tasks[i].filename IN
            f # NoFilename =>
                /\ Cardinality(Writers(f)) <= 1
                /\ \A j \in Resolved(f) \ Writers(f) :
                      tasks[j].outcome = "already exists"
                /\ Cardinality(Writers(f)) = 1 <=> f \notin DOMAIN dir_before

\* two identifiers resolved to one filename: one invocation is writing the
\* file and the other has reported that it exists
C14_Witness ==
    \E i, j \in 1..Len(tasks) :
        /\ tasks[i].arg # tasks[j].arg
        /\ tasks[i].filename = tasks[j].filename
        /\ tasks[i].pc = "writing"
        /\ tasks[j].outcome = "already exists"
        /\ tasks[i].filename \notin DOMAIN dir_before

\* what holds of every step when the listing answer does not decode: the
\* fetch returns no identifiers, no resolver or download invocation is
\* started, no file is written, nothing is reported and the first account
\* is the last one started
UndecodableListingIsInert ==
    /\ uuids' = <<>>
    /\ tasks' = <<>>
    /\ fs' = downloads0
    /\ report' = report
    /\ acct' = 1
    /\ pc' \in {"listing", "aborted", "exited"}

\* C15 as stated: when the listing answer cannot be decoded as JSON, the
\* diagnostic dump is logged and the fetch then fails with an unguarded
\* error; no resolver or download request is sent, no file is written and
\* the run ends before a later account starts
C15_UndecodableListingDumpsAndFails ==
    [][listing_answer # "json" =>
          /\ UndecodableListingIsInert
          /\ pc = "listing" =>
                /\ pc' = "aborted"
                /\ error' # None
                /\ "listing" \in diagnostics']_vars

\* C15 as amended: when the content type of the listing answer is not
\* JSON, the diagnostic dump is logged and the fetch then fails with
\* UnboundLocalError; when the content type is JSON and the body is not,
\* the decoder's error ends the fetch and nothing is dumped; either way no
\* resolver or download request is sent, no file is written and the run
\* ends before a later account starts
C15_UndecodableListingFails ==
    [][listing_answer # "json" =>
          /\ UndecodableListingIsInert
          /\ pc = "listing" =>
                /\ pc' = "aborted"
                /\ sessions' = {}
                /\ listing_answer = "not json" =>
                      error' = "UnboundLocalError" /\ diagnostics' = {"listing"}
                /\ listing_answer = "malformed json" =>
                      error' = "JSONDecodeError" /\ diagnostics' = {}]_vars

\* the run ended on a listing answer of another content type, dumped
C15_Witness ==
    /\ pc = "exited"
    /\ listing_answer = "not json"
    /\ error = "UnboundLocalError"
    /\ diagnostics = {"listing"}
    /\ acct = 1
    /\ fs = downloads0

\* the resolver invocations that have returned
Resolvers == {i \in 1..Len(tasks) : tasks[i].outcome = "returned"}

\* C16: on a decoded body the resolver returns the first record's
\* special_project_uuid when the body is a non-empty list whose first
\* record has the field, and None, without raising, when the body is
\* empty, when the first record lacks the field, or when reading the
\* first record's field raises
C16_ResolverResult ==
    /\ \A i \in Resolvers :
          LET body == AttachmentBody(tasks[i].arg) IN
              /\ body = <<>> => tasks[i].result = None
              /\ body # <<>> =>
                    LET first == Head(body) IN
                        /\ "special_project_uuid" \in DOMAIN first
                              => tasks[i].result = first.special_project_uuid
                        /\ "special_project_uuid" \notin DOMAIN first
                              => tasks[i].result = None
    /\ \A i \in 1..Len(tasks) :
          tasks[i].outcome = "ContentTypeError" => tasks[i].arg \in not_json

\* a resolver has returned the first record's field of a body whose second
\* record holds another
C16_Witness ==
    \E i \in Resolvers :
        LET body == AttachmentBody(tasks[i].arg) IN
            /\ Len(body) = 2
            /\ "special_project_uuid" \in DOMAIN body[1]
            /\ body[2].special_project_uuid # tasks[i].result

\* a resolver has returned None on a first element that is not an object
C16_WitnessCaught ==
    \E i \in Resolvers :
        /\ AttachmentBody(tasks[i].arg) # <<>>
        /\ GetRaises(AttachmentBody(tasks[i].arg))
        /\ tasks[i].result = None

\* the downloads whose storage resource has answered, each with the answer
\* it got
Named == {i \in 1..Len(tasks) : tasks[i].store \in Stores /\ tasks[i].pc \in {"writing", "done"}}

HeaderOf(i) == stores[tasks[i].store].header

\* the characters of [A-Za-z0-9_.-] among those the model uses
AsciiAllowed == AsciiWordChars \cup {".", "-"}

\* C17: whenever the storage resource answers 200 with a
\* Content-Disposition header that contains the token filename, a
\* filename is resolved and all its characters are in [A-Za-z0-9_.-];
\* filename="a b/c?.pdf" yields a_b_c_.pdf
C17_TokenYieldsAsciiFilename ==
    \A i \in Named :
        (stores[tasks[i].store].status = StatusOK /\ Contains(HeaderOf(i), FilenameToken)) =>
            /\ tasks[i].filename # NoFilename
            /\ Range(tasks[i].filename) \subseteq AsciiAllowed
            /\ HeaderOf(i) = HeaderFor(ASpaceBSlashC) => tasks[i].filename = AUnderBUnderC

\* the raw value between filename=" and the last quote of a header built
\* by HeaderFor
QuotedValues ==
    {APctB, ASpaceBSlashC, DocPdf, ASpaceB, ASlashB,
     <<Cyrillic, ".", "p", "d", "f">>, <<"a", "\"", "b", ".", "p", "d", "f">>}

\* C17 as the code has it: whenever the storage resource answers 200 with
\* a header in which filename="<value>" occurs, value not empty, the
\* resolved filename has one character for each character of the
\* URL-decoded value: the character itself when it is a letter or a digit
\* of any script, an underscore, a dot or a hyphen, and an underscore
\* otherwise (a quote inside the value included); a header that contains
\* the token filename without such a quoted value resolves no filename
C17_QuotedValueSanitized ==
    \A i \in Named :
        stores[tasks[i].store].status = StatusOK =>
            /\ (\A raw \in QuotedValues : HeaderOf(i) # HeaderFor(raw))
                  => tasks[i].filename = NoFilename
            /\ HeaderOf(i) = HeaderFor(ASpaceBSlashC) => tasks[i].filename = AUnderBUnderC
            /\ HeaderOf(i) = HeaderFor(APctB) => tasks[i].filename = AUnderB
            /\ HeaderOf(i) = HeaderFor(<<Cyrillic, ".", "p", "d", "f">>)
                  => tasks[i].filename = <<Cyrillic, ".", "p", "d", "f">>
            /\ HeaderOf(i) = HeaderFor(<<"a", "\"", "b", ".", "p", "d", "f">>)
                  => tasks[i].filename = AUnderB
            /\ \A raw \in QuotedValues \ {APctB} :
                  HeaderOf(i) = HeaderFor(raw) =>
                      /\ Len(tasks[i].filename) = Len(raw)
                      /\ \A k \in 1..Len(raw) :
                            tasks[i].filename[k] =
                               IF raw[k] \in WordChars \cup {".", "-"} THEN raw[k] ELSE "_"

\* a filename with a letter outside ASCII has been resolved
C17_Witness ==
    \E i \in Named :
        /\ stores[tasks[i].store].status = StatusOK
        /\ HeaderOf(i) = HeaderFor(<<Cyrillic, ".", "p", "d", "f">>)
        /\ Cyrillic \in Range(tasks[i].filename)

\* a header with an unquoted filename has resolved no filename
C17_WitnessUnquoted ==
    \E i \in Named :
        /\ stores[tasks[i].store].status = StatusOK
        /\ HeaderOf(i) = UnquotedHeaderFor(DocPdf)
        /\ tasks[i].filename = NoFilename

\* C18: an account whose listing yields no identifier completes its
\* pipeline: get_all_file_uuids returns an empty list without raising,
\* download_all_files reports 0 of 0, the session is closed and main goes
\* on to the next account
C18_EmptyListingCompletes ==
    [][/\ (pc = "resolving" /\ uuids = <<>>) =>
              /\ pc' = "downloading"
              /\ file_uuids' = <<>>
              /\ error' = None
       /\ (pc = "downloading" /\ uuids = <<>>) =>
              /\ report'[acct] = <<0, 0>>
              /\ sessions' = {}
              /\ acct' = acct + 1
              /\ error' = None]_vars

\* the invocations of the current fan-out that have neither returned nor
\* raised
InFlight == {i \in 1..Len(tasks) : tasks[i].pc \notin {"done", "raised"}}

\* C19: when async_requester finishes, by returning or by raising, none of
\* its invocations is in flight, and once it has raised and the session is
\* closed no invocation takes a further step: none issues a request and
\* none creates or extends a file
C19_NoneInFlightAfterFanout ==
    [][/\ (pc \in {"resolving", "downloading"} /\ pc' # pc) => InFlight = {}
       /\ pc = "aborted" =>
              /\ InFlight = {}
              /\ tasks' = tasks
              /\ fs' = fs]_vars

\* C20: when download_all_files reports its counters, the number of
\* successful downloads is the number of files the account's download
\* stage created in the downloads directory (an item that existed, had no
\* filename or got a status other than 200 is not counted), it does not
\* exceed the reported total, and the total is the number of identifiers
\* passed to the stage
C20_CountersMatchNewFiles ==
    [][report' # report =>
          LET successful == report'[acct][1]
              total == report'[acct][2]
          IN /\ successful = Cardinality(DOMAIN fs \ DOMAIN dir_before)
             /\ successful = Cardinality({i \in 1..Len(tasks) :
                                             tasks[i].outcome = "downloaded"})
             /\ successful <= total
             /\ total = Len(file_uuids)
             /\ DOMAIN dir_before \subseteq DOMAIN fs
             /\ fs' = fs]_vars

\* an account has reported fewer successful downloads, but at least one,
\* than identifiers, one of them being a file that existed
C20_Witness ==
    \E a \in Accounts :
        /\ report[a] # <<>>
        /\ report[a][1] >= 1
        /\ report[a][1] < report[a][2]
        /\ \E i \in 1..Len(runs[a]) : runs[a][i].outcome = "already exists"

====
